---- MODULE Spec2Model ----
(***************************************************************************)
(* Content Consistency Grader: the analysis pipeline of                    *)
(* server/textAnalysis/analyzer.js (src/unnamed/part_001) behind the       *)
(* POST /api/analyze route of src/server/index.js.                         *)
(*                                                                         *)
(* A text is a sequence of items: a word (a maximal run of word            *)
(* characters), one space character " ", or one punctuation character "!". *)
(* A ContentSet is a sequence of texts; platform i carries the label       *)
(* Labels[i], and the order of the sequence is the key order of the JS     *)
(* object.  Numbers are exact fractions [n, d]; d = 0 is the NaN that the  *)
(* JS division 0/0 produces.  The sentiment variance is computed a second  *)
(* time in binary64 (varianceDouble), the arithmetic of the engine, where  *)
(* the rounding of each operation shows.  The outputs of the               *)
(* part-of-speech tagger (topNouns, topVerbs) and of TF-IDF (topTerms)     *)
(* feed neither the scores nor the recommendations and are left out of the *)
(* keyword result.                                                         *)
(*                                                                         *)
(* The page of the browser (src/unnamed/part_000) is a second machine over *)
(* its own variables, with the answers of the server as its environment.   *)
(***************************************************************************)
EXTENDS Integers, Sequences, FiniteSets, TLC

VARIABLES dom, pc, request, platformContent, sentimentResults,
          varianceDouble, keywordResults, toneResults, similarityMatrix,
          consistencyScore, recommendations, thrown, response,
          inputHidden, resultsHidden, loadingHidden, usedPlatforms, fields,
          outstanding

serverVars == <<dom, pc, request, platformContent, sentimentResults,
                varianceDouble, keywordResults, toneResults,
                similarityMatrix, consistencyScore, recommendations, thrown,
                response>>

browserVars == <<inputHidden, resultsHidden, loadingHidden, usedPlatforms,
                 fields, outstanding>>

vars == <<serverVars, browserVars>>

(***************************************************************************)
(* Bounds of the model.                                                    *)
(***************************************************************************)
MaxPlatforms == 3

MaxTotalWords == 2

MaxTonePlatforms == 4

MaxToneWords == 3

MaxKeywordPlatforms == 3

MaxKeywordWords == 2

MaxPairWords == 3

MaxVariancePlatforms == 3

MaxVarianceWords == 5

MaxFields == 4

(***************************************************************************)
(* Numbers.                                                                *)
(***************************************************************************)
RECURSIVE GCD(_, _)
GCD(a, b) == IF b = 0 THEN a ELSE GCD(b, a % b)

Abs(a) == IF a < 0 THEN -a ELSE a

\* The fraction a / b in lowest terms, b >= 0; b = 0 is NaN.
Num(a, b) == IF b = 0 THEN [n |-> 0, d |-> 0]
             ELSE LET g == GCD(Abs(a), b) IN [n |-> a \div g, d |-> b \div g]

Int2Num(a) == Num(a, 1)

NaN == Num(0, 0)

IsNaN(x) == x.d = 0

\* JS ===, <, > on numbers: every comparison with NaN is false.
NumEq(x, y) == ~IsNaN(x) /\ ~IsNaN(y) /\ x.n * y.d = y.n * x.d

NumLt(x, y) == ~IsNaN(x) /\ ~IsNaN(y) /\ x.n * y.d < y.n * x.d

NumGt(x, y) == NumLt(y, x)

NumLe(x, y) == ~IsNaN(x) /\ ~IsNaN(y) /\ x.n * y.d <= y.n * x.d

\* Sums are formed over the least common denominator, which keeps the
\* intermediate integers small.
NumAdd(x, y) == IF IsNaN(x) \/ IsNaN(y) THEN NaN
                ELSE LET g == GCD(x.d, y.d)
                     IN Num(x.n * (y.d \div g) + y.n * (x.d \div g),
                            (x.d \div g) * y.d)

NumSub(x, y) == IF IsNaN(x) \/ IsNaN(y) THEN NaN
                ELSE LET g == GCD(x.d, y.d)
                     IN Num(x.n * (y.d \div g) - y.n * (x.d \div g),
                            (x.d \div g) * y.d)

NumMul(x, y) == IF IsNaN(x) \/ IsNaN(y) THEN NaN
                ELSE Num(x.n * y.n, x.d * y.d)

\* JS a / b for integers a >= 0, b >= 0 with a = 0 whenever b = 0.
IntDiv(a, b) == IF b = 0 THEN NaN ELSE Num(a, b)

\* JS x / k for a number x and an integer k > 0.
NumDivInt(x, k) == IF IsNaN(x) THEN NaN ELSE Num(x.n, x.d * k)

\* Math.max(0, x): NaN if x is NaN.
MathMax0(x) == IF IsNaN(x) THEN NaN ELSE IF x.n < 0 THEN Int2Num(0) ELSE x

\* floor of the fraction a / b, b > 0.
FloorDiv(a, b) == IF a >= 0 THEN a \div b ELSE -((-a + b - 1) \div b)

\* Math.round(x): the nearest integer, halves rounded up; NaN stays NaN.
MathRound(x) == IF IsNaN(x) THEN NaN
                ELSE Int2Num(FloorDiv(2 * x.n + x.d, 2 * x.d))

IsInteger(x) == x.d = 1

Min(a, b) == IF a < b THEN a ELSE b

Max(a, b) == IF a > b THEN a ELSE b

(***************************************************************************)
(* IEEE 754 binary64 arithmetic, as the JS engine applies it to Number     *)
(* values.  A natural number of any size is a sequence of limbs in base    *)
(* LimbBase, least significant first, without leading zero limbs.  A       *)
(* double is [neg, m, e] and stands for (-1)^neg * m * 2^e with m odd, or  *)
(* zero; every operation is the exact result rounded to SignificandBits    *)
(* bits, ties to even.  Exponent overflow and subnormal numbers are out of *)
(* reach of the values computed here and are not represented.              *)
(***************************************************************************)
LimbBits == 14

LimbBase == 16384

SignificandBits == 53

RECURSIVE Pow2(_)
Pow2(k) == IF k = 0 THEN 1 ELSE 2 * Pow2(k - 1)

RECURSIVE IntBits(_)
IntBits(k) == IF k = 0 THEN 0 ELSE 1 + IntBits(k \div 2)

RECURSIVE BigTrim(_)
BigTrim(a) == IF a = <<>> THEN a
              ELSE IF a[Len(a)] = 0 THEN BigTrim(SubSeq(a, 1, Len(a) - 1))
              ELSE a

RECURSIVE BigOfInt(_)
BigOfInt(k) == IF k = 0 THEN <<>>
               ELSE <<k % LimbBase>> \o BigOfInt(k \div LimbBase)

Limb(a, i) == IF i <= Len(a) THEN a[i] ELSE 0

RECURSIVE BigAddFrom(_, _, _, _)
BigAddFrom(a, b, i, carry) ==
  IF i > Max(Len(a), Len(b))
  THEN IF carry = 0 THEN <<>> ELSE <<carry>>
  ELSE LET s == Limb(a, i) + Limb(b, i) + carry
       IN <<s % LimbBase>> \o BigAddFrom(a, b, i + 1, s \div LimbBase)

BigAdd(a, b) == BigTrim(BigAddFrom(a, b, 1, 0))

\* a - b for a >= b.
RECURSIVE BigSubFrom(_, _, _, _)
BigSubFrom(a, b, i, borrow) ==
  IF i > Len(a) THEN <<>>
  ELSE LET s == Limb(a, i) - Limb(b, i) - borrow
       IN <<IF s < 0 THEN s + LimbBase ELSE s>>
          \o BigSubFrom(a, b, i + 1, IF s < 0 THEN 1 ELSE 0)

BigSub(a, b) == BigTrim(BigSubFrom(a, b, 1, 0))

RECURSIVE BigLessFrom(_, _, _)
BigLessFrom(a, b, i) == IF i = 0 THEN FALSE
                        ELSE IF a[i] # b[i] THEN a[i] < b[i]
                        ELSE BigLessFrom(a, b, i - 1)

BigLess(a, b) == IF Len(a) # Len(b) THEN Len(a) < Len(b)
                 ELSE BigLessFrom(a, b, Len(a))

\* a * k for 0 <= k <= LimbBase.
RECURSIVE BigMulSmallFrom(_, _, _, _)
BigMulSmallFrom(a, k, i, carry) ==
  IF i > Len(a) THEN BigOfInt(carry)
  ELSE LET s == a[i] * k + carry
       IN <<s % LimbBase>> \o BigMulSmallFrom(a, k, i + 1, s \div LimbBase)

BigMulSmall(a, k) == BigTrim(BigMulSmallFrom(a, k, 1, 0))

RECURSIVE BigMulFrom(_, _, _)
BigMulFrom(a, b, i) ==
  IF i > Len(b) THEN <<>>
  ELSE BigAdd(BigMulSmall(a, b[i]), <<0>> \o BigMulFrom(a, b, i + 1))

BigMul(a, b) == BigTrim(BigMulFrom(a, b, 1))

\* Quotient and remainder of a by k, for 0 < k <= LimbBase * 8.
RECURSIVE BigDivSmallFrom(_, _, _, _)
BigDivSmallFrom(a, k, i, r) ==
  IF i = 0 THEN [q |-> <<>>, r |-> r]
  ELSE LET cur == r * LimbBase + a[i]
           low == BigDivSmallFrom(a, k, i - 1, cur % k)
       IN [q |-> Append(low.q, cur \div k), r |-> low.r]

BigDivSmall(a, k) ==
  LET d == BigDivSmallFrom(a, k, Len(a), 0) IN [q |-> BigTrim(d.q), r |-> d.r]

BigShl(a, k) ==
  IF a = <<>> THEN <<>>
  ELSE [i \in 1..(k \div LimbBits) |-> 0] \o BigMulSmall(a, Pow2(k % LimbBits))

BigShr(a, k) ==
  LET d == k \div LimbBits
  IN IF d >= Len(a) THEN <<>>
     ELSE BigDivSmall(SubSeq(a, d + 1, Len(a)), Pow2(k % LimbBits)).q

BitLength(a) == IF a = <<>> THEN 0
                ELSE LimbBits * (Len(a) - 1) + IntBits(a[Len(a)])

IsOdd(a) == a # <<>> /\ a[1] % 2 = 1

DoubleZero == [neg |-> FALSE, m |-> <<>>, e |-> 0]

RECURSIVE Canonical(_, _, _)
Canonical(neg, m, e) ==
  IF m = <<>> THEN DoubleZero
  ELSE IF m[1] = 0 THEN Canonical(neg, Tail(m), e + LimbBits)
  ELSE IF m[1] % 2 = 0 THEN Canonical(neg, BigShr(m, 1), e + 1)
  ELSE [neg |-> neg, m |-> m, e |-> e]

\* The double nearest to (-1)^neg * m * 2^e, ties to the even significand.
RoundToDouble(neg, m, e) ==
  LET len == BitLength(m) IN
  IF len <= SignificandBits THEN Canonical(neg, m, e)
  ELSE LET sh == len - SignificandBits
           q == BigShr(m, sh)
           rem == BigSub(m, BigShl(q, sh))
           half == BigShl(<<1>>, sh - 1)
           up == BigLess(half, rem) \/ (rem = half /\ IsOdd(q))
       IN Canonical(neg, IF up THEN BigAdd(q, <<1>>) ELSE q, e + sh)

DoubleOfInt(k) == Canonical(k < 0, BigOfInt(Abs(k)), 0)

DoubleNeg(x) == IF x.m = <<>> THEN x ELSE [x EXCEPT !.neg = ~x.neg]

DoubleAdd(x, y) ==
  IF x.m = <<>> THEN y
  ELSE IF y.m = <<>> THEN x
  ELSE LET e == Min(x.e, y.e)
           a == BigShl(x.m, x.e - e)
           b == BigShl(y.m, y.e - e)
       IN IF x.neg = y.neg THEN RoundToDouble(x.neg, BigAdd(a, b), e)
          ELSE IF BigLess(a, b) THEN RoundToDouble(y.neg, BigSub(b, a), e)
          ELSE RoundToDouble(x.neg, BigSub(a, b), e)

DoubleSub(x, y) == DoubleAdd(x, DoubleNeg(y))

DoubleMul(x, y) == RoundToDouble(x.neg # y.neg, BigMul(x.m, y.m), x.e + y.e)

\* x / k for an integer k > 0: the quotient carried to GuardBits more bits
\* than the dividend, with one last bit that records a nonzero remainder.
GuardBits == 84

DoubleDivInt(x, k) ==
  LET d == BigDivSmall(BigShl(x.m, GuardBits), k)
      m == BigAdd(BigShl(d.q, 1), IF d.r = 0 THEN <<>> ELSE <<1>>)
  IN RoundToDouble(x.neg, m, x.e - GuardBits - 1)

(***************************************************************************)
(* Texts.                                                                  *)
(***************************************************************************)
SP == " "

PUNCT == "!"

IsWord(it) == it # SP /\ it # PUNCT

\* String.prototype.toLowerCase on one word of the vocabulary.
ToLowerWord(w) == CASE w = "Brand" -> "brand"
                    [] w = "Best" -> "best"
                    [] OTHER -> w

toLowerCase(text) == [i \in 1..Len(text) |-> ToLowerWord(text[i])]

\* String.prototype.trim() yields a non-empty string.
IsNonBlank(text) == \E i \in 1..Len(text) : text[i] # SP

\* natural.WordTokenizer.tokenize: the maximal runs of word characters.
tokenize(text) == SelectSeq(text, IsWord)

\* content.split(' ').length
SplitSpaceLength(text) == Len(SelectSeq(text, LAMBDA it : it = SP)) + 1

\* natural.stopwords, restricted to the vocabulary.
stopwords == {"the", "is", "and", "our"}

\* [...new Set(seq)]: the distinct elements in first-seen order.
RECURSIVE Distinct(_)
Distinct(s) ==
  IF s = <<>> THEN <<>>
  ELSE LET front == Distinct(SubSeq(s, 1, Len(s) - 1))
           last == s[Len(s)]
       IN IF \E i \in 1..Len(front) : front[i] = last THEN front
          ELSE Append(front, last)

SeqSet(s) == {s[i] : i \in 1..Len(s)}

Includes(s, e) == \E i \in 1..Len(s) : s[i] = e

\* Array.prototype.slice(0, k)
Slice0(s, k) == SubSeq(s, 1, Min(k, Len(s)))

Labels == <<"website", "twitter", "blog", "email", "press", "other">>

Platforms(content) == 1..Len(content)

(***************************************************************************)
(* Sentiment.                                                              *)
(***************************************************************************)
\* The AFINN weight the sentiment lexicon gives a (lowercase) word.
Afinn(w) == CASE w = "good" -> 3
              [] w = "best" -> 3
              [] w = "cool" -> 1
              [] w = "bad" -> -3
              [] OTHER -> 0

RECURSIVE SumAfinn(_)
SumAfinn(ws) == IF ws = <<>> THEN 0 ELSE Afinn(Head(ws)) + SumAfinn(Tail(ws))

\* sentimentAnalyzer.analyze(content): the summed word weights, and the sum
\* over the number of tokens (the analyzer's token list of a text without
\* words is the one empty string).
SentimentOf(text) ==
  LET tokens == tokenize(toLowerCase(text))
      score == SumAfinn(tokens)
  IN [score |-> score, comparative |-> Num(score, Max(1, Len(tokens)))]

RECURSIVE NumSum(_)
NumSum(values) == IF values = <<>> THEN Int2Num(0)
                  ELSE NumAdd(Head(values), NumSum(Tail(values)))

calculateVariance(values) ==
  LET n == Len(values) IN
  IF n = 0 THEN Int2Num(0)
  ELSE LET mean == NumDivInt(NumSum(values), n)
           squaredDiffs == [i \in 1..n |->
                              LET dv == NumSub(values[i], mean) IN NumMul(dv, dv)]
       IN NumDivInt(NumSum(squaredDiffs), n)

ConsistencyThreshold == Num(1, 5)

performSentimentAnalysis(content) ==
  LET results == [p \in Platforms(content) |-> SentimentOf(content[p])]
      sentimentScores == [p \in Platforms(content) |-> results[p].comparative]
      sentimentVariance == calculateVariance(sentimentScores)
  IN [platformSentiments |-> results,
      variance |-> sentimentVariance,
      consistent |-> NumLt(sentimentVariance, ConsistencyThreshold)]

\* The double nearest to the fraction x, x not NaN: the JS division of its
\* numerator by its denominator.
DoubleOfNum(x) == DoubleDivInt(DoubleOfInt(x.n), x.d)

\* values.reduce((sum, val) => sum + val, 0)
RECURSIVE DoubleSum(_)
DoubleSum(values) ==
  IF values = <<>> THEN DoubleZero
  ELSE DoubleAdd(DoubleSum(SubSeq(values, 1, Len(values) - 1)),
                 values[Len(values)])

\* calculateVariance as the engine computes it, every operation rounded to
\* a double.
calculateVarianceDouble(values) ==
  LET n == Len(values) IN
  IF n = 0 THEN DoubleZero
  ELSE LET mean == DoubleDivInt(DoubleSum(values), n)
           squaredDiffs == [i \in 1..n |->
                              LET dv == DoubleSub(values[i], mean)
                              IN DoubleMul(dv, dv)]
       IN DoubleDivInt(DoubleSum(squaredDiffs), n)

\* The value of the variance member of performSentimentAnalysis's result.
SentimentVarianceDouble(content) ==
  LET sentimentScores == [p \in Platforms(content) |->
                            DoubleOfNum(SentimentOf(content[p]).comparative)]
  IN calculateVarianceDouble(sentimentScores)

(***************************************************************************)
(* Keywords.                                                               *)
(***************************************************************************)
KeywordLimit == 10

MinKeywordLength == 2

IsKeyword(word) == Len(word) > MinKeywordLength /\ word \notin stopwords

\* tokens.filter(...) of one platform, before deduplication
KeywordsOf(text) == SelectSeq(tokenize(toLowerCase(text)), IsKeyword)

\* results[platform].keywords
PlatformKeywords(text) == Slice0(Distinct(KeywordsOf(text)), KeywordLimit)

\* allKeywords in insertion order
RECURSIVE AllKeywordsSeq(_)
AllKeywordsSeq(content) ==
  IF content = <<>> THEN <<>>
  ELSE Distinct(AllKeywordsSeq(SubSeq(content, 1, Len(content) - 1))
                \o KeywordsOf(content[Len(content)]))

\* keywordPresence[keyword]
PresenceOf(content, keyword) ==
  LET on == SelectSeq([p \in Platforms(content) |-> p],
                      LAMBDA p : Includes(PlatformKeywords(content[p]), keyword))
  IN [count |-> Len(on), platforms |-> on]

KeywordScore(numPlatforms, numConsistent, numAll) ==
  IF numPlatforms > 0 THEN IntDiv(numConsistent, Min(KeywordLimit, numAll))
  ELSE Int2Num(0)

extractKeywords(content) ==
  LET allKeywords == AllKeywordsSeq(content)
      keywordPresence == [i \in 1..Len(allKeywords) |->
                            [keyword |-> allKeywords[i]]
                            @@ PresenceOf(content, allKeywords[i])]
      numPlatforms == Len(content)
      consistentKeywords ==
        SelectSeq(allKeywords,
                  LAMBDA kw : PresenceOf(content, kw).count = numPlatforms)
  IN [platformKeywords |-> [p \in Platforms(content) |->
                              PlatformKeywords(content[p])],
      consistentKeywords |-> consistentKeywords,
      keywordPresence |-> keywordPresence,
      consistencyScore |-> KeywordScore(numPlatforms, Len(consistentKeywords),
                                        Len(allKeywords))]

(***************************************************************************)
(* Tone.                                                                   *)
(***************************************************************************)
\* Object.keys(toneMarkers), in insertion order
ToneOrder == <<"formal", "casual", "professional", "promotional">>

toneMarkers ==
  [formal |-> {"therefore", "consequently", "furthermore", "thus", "hence",
               "regarding"},
   casual |-> {"awesome", "cool", "yeah", "super", "totally", "btw", "lol"},
   professional |-> {"accordingly", "additionally", "significantly",
                     "importantly", "notably"},
   promotional |-> {"amazing", "incredible", "exclusive", "limited",
                    "opportunity", "best"}]

\* The number of matches of /\bmarker\b/gi summed over the markers of a tone.
MarkerCount(content, tone) ==
  Len(SelectSeq(content, LAMBDA it : ToLowerWord(it) \in toneMarkers[tone]))

ToneScores(text) ==
  LET content == toLowerCase(text)
  IN [tone \in SeqSet(ToneOrder) |->
        Num(MarkerCount(content, tone) * 100, SplitSpaceLength(content))]

\* The callback of the reduce: (a, b) => toneScores[a] > toneScores[b] ? a : b
PreferFirstOnTie(toneScores, a, b) ==
  IF NumLt(toneScores[a], toneScores[b]) THEN b ELSE a

Prefer(toneScores, a, b) ==
  IF NumGt(toneScores[a], toneScores[b]) THEN a ELSE b

RECURSIVE ReduceTones(_, _, _)
ReduceTones(toneScores, acc, rest) ==
  IF rest = <<>> THEN acc
  ELSE ReduceTones(toneScores, Prefer(toneScores, acc, Head(rest)), Tail(rest))

DominantTone(toneScores) ==
  ReduceTones(toneScores, Head(ToneOrder), Tail(ToneOrder))

ToneScoreWrongDivisor(numUnique) ==
  NumSub(Int2Num(1), IntDiv(numUnique - 1, Len(ToneOrder)))

\* 1 - ((uniqueTones.size - 1) / Math.max(Object.keys(toneMarkers).length - 1, 1))
ToneConsistencyScore(numUnique) ==
  NumSub(Int2Num(1), Num(numUnique - 1, Max(Len(ToneOrder) - 1, 1)))

analyzeTone(content) ==
  LET results == [p \in Platforms(content) |->
                    LET toneScores == ToneScores(content[p])
                    IN [scores |-> toneScores,
                        dominantTone |-> DominantTone(toneScores)]]
      uniqueTones == {results[p].dominantTone : p \in Platforms(content)}
  IN [platformTones |-> results,
      consistencyScore |-> ToneConsistencyScore(Cardinality(uniqueTones)),
      consistent |-> Cardinality(uniqueTones) = 1]

(***************************************************************************)
(* Similarity.                                                             *)
(***************************************************************************)
\* intersection.size / union.size
Jaccard(text1, text2) ==
  LET tokens1 == SeqSet(tokenize(toLowerCase(text1)))
      tokens2 == SeqSet(tokenize(toLowerCase(text2)))
  IN IntDiv(Cardinality(tokens1 \cap tokens2),
            Cardinality(tokens1 \cup tokens2))

\* The pairs (i, j), i < j, in the order of the nested loops.
RECURSIVE PairsFrom(_, _, _)
PairsFrom(i, j, n) ==
  IF i >= n THEN <<>>
  ELSE IF j > n THEN PairsFrom(i + 1, i + 2, n)
  ELSE <<(<<i, j>>)>> \o PairsFrom(i, j + 1, n)

Pairs(n) == PairsFrom(1, 2, n)

calculateSimilarityMatrix(content) ==
  LET upper == [i \in Platforms(content) |-> [j \in Platforms(content) |->
                  IF j > i THEN Jaccard(content[i], content[j]) ELSE NaN]]
      matrix == [i \in Platforms(content) |-> [j \in Platforms(content) |->
                  IF i = j THEN Int2Num(1)
                  ELSE IF j > i THEN upper[i][j]
                  ELSE upper[j][i]]]
      pairs == Pairs(Len(content))
      totalSimilarity == NumSum([k \in 1..Len(pairs) |->
                                   matrix[pairs[k][1]][pairs[k][2]]])
      pairCount == Len(pairs)
  IN [matrix |-> matrix,
      averageSimilarity |-> IF pairCount > 0
                            THEN NumDivInt(totalSimilarity, pairCount)
                            ELSE Int2Num(0)]

(***************************************************************************)
(* Overall score.                                                          *)
(***************************************************************************)
weights == [sentiment |-> Num(2, 10), keywords |-> Num(3, 10),
            tone |-> Num(25, 100), similarity |-> Num(25, 100)]

calculateConsistencyScore(sentimentRes, keywordRes, toneRes, similarityRes) ==
  LET sentimentScore == MathMax0(NumSub(Int2Num(1), sentimentRes.variance))
      keywordScore == keywordRes.consistencyScore
      toneScore == toneRes.consistencyScore
      similarityScore == similarityRes.averageSimilarity
      overallScore ==
        NumMul(NumAdd(NumAdd(NumAdd(NumMul(weights.sentiment, sentimentScore),
                                    NumMul(weights.keywords, keywordScore)),
                             NumMul(weights.tone, toneScore)),
                      NumMul(weights.similarity, similarityScore)),
               Int2Num(100))
  IN MathRound(overallScore)

(***************************************************************************)
(* Recommendations.                                                        *)
(***************************************************************************)
\* The forEach that tracks the least comparative score; found = FALSE is the
\* initial { platform: '', value: Infinity }.
RECURSIVE ScanMinGreater(_, _, _)
ScanMinGreater(sentiments, p, best) ==
  IF p > Len(sentiments) THEN best
  ELSE ScanMinGreater(sentiments, p + 1,
                      IF ~best.found \/ NumGt(sentiments[p].comparative, best.value)
                      THEN [found |-> TRUE, platform |-> Labels[p],
                            value |-> sentiments[p].comparative]
                      ELSE best)

RECURSIVE ScanMin(_, _, _)
ScanMin(sentiments, p, best) ==
  IF p > Len(sentiments) THEN best
  ELSE ScanMin(sentiments, p + 1,
               IF ~best.found \/ NumLt(sentiments[p].comparative, best.value)
               THEN [found |-> TRUE, platform |-> Labels[p],
                     value |-> sentiments[p].comparative]
               ELSE best)

\* The same for the greatest, from { platform: '', value: -Infinity }.
RECURSIVE ScanMax(_, _, _)
ScanMax(sentiments, p, best) ==
  IF p > Len(sentiments) THEN best
  ELSE ScanMax(sentiments, p + 1,
               IF ~best.found \/ NumGt(sentiments[p].comparative, best.value)
               THEN [found |-> TRUE, platform |-> Labels[p],
                     value |-> sentiments[p].comparative]
               ELSE best)

NoExtreme == [found |-> FALSE, platform |-> "", value |-> Int2Num(0)]

SentimentRecommendation(sentimentRes) ==
  IF ~sentimentRes.consistent
  THEN <<[category |-> "sentiment",
          title |-> "Align emotional tone across platforms",
          maxPlatform |-> ScanMax(sentimentRes.platformSentiments, 1,
                                  NoExtreme).platform,
          minPlatform |-> ScanMin(sentimentRes.platformSentiments, 1,
                                  NoExtreme).platform]>>
  ELSE <<>>

\* entries.sort((a, b) => b[1].count - a[1].count): stable, descending count
SortByCountNot(entries, c) == entries

RECURSIVE SortByCountDesc(_, _)
SortByCountDesc(entries, c) ==
  IF c < 0 THEN <<>>
  ELSE SelectSeq(entries, LAMBDA e : e.count = c)
       \o SortByCountDesc(entries, c - 1)

MaxListedKeywords == 3

InconsistentKeywordsNoZeroFilter(keywordRes) ==
  LET numPlatforms == Len(keywordRes.platformKeywords)
      partial == SelectSeq(keywordRes.keywordPresence,
                           LAMBDA e : e.count < numPlatforms)
  IN Slice0(SortByCountDesc(partial, numPlatforms), MaxListedKeywords)

InconsistentKeywords(keywordRes) ==
  LET numPlatforms == Len(keywordRes.platformKeywords)
      partial == SelectSeq(keywordRes.keywordPresence,
                           LAMBDA e : e.count > 0 /\ e.count < numPlatforms)
  IN Slice0(SortByCountDesc(partial, numPlatforms), MaxListedKeywords)

KeywordRecommendation(keywordRes) ==
  LET inconsistentKeywords == InconsistentKeywords(keywordRes)
      numPlatforms == Len(keywordRes.platformKeywords)
      all == [p \in 1..numPlatforms |-> p]
  IN IF Len(inconsistentKeywords) > 0
     THEN <<[category |-> "keywords",
             title |-> "Include key terms consistently across platforms",
             suggestions |->
               [k \in 1..Len(inconsistentKeywords) |->
                  [keyword |-> inconsistentKeywords[k].keyword,
                   missing |->
                     SelectSeq(all, LAMBDA p :
                       ~Includes(inconsistentKeywords[k].platforms, p))]]]>>
     ELSE <<>>

ToneRecommendation(toneRes) ==
  IF ~toneRes.consistent
  THEN <<[category |-> "tone",
          title |-> "Standardize your communication style",
          tones |-> [p \in DOMAIN toneRes.platformTones |->
                       [platform |-> Labels[p],
                        tone |-> toneRes.platformTones[p].dominantTone]]]>>
  ELSE <<>>

\* The nested loops that track the pair of least similarity, from
\* { platforms: ['', ''], value: 1 }.
RECURSIVE ScanLowestSkipsFirst(_, _, _, _)
ScanLowestSkipsFirst(matrix, pairs, k, lowest) ==
  IF k > Len(pairs) THEN lowest
  ELSE LET similarity == matrix[pairs[k][1]][pairs[k][2]]
       IN ScanLowestSkipsFirst(matrix, pairs, k + 1,
                               IF k > 1 /\ NumLt(similarity, lowest.value)
                               THEN [platforms |-> <<Labels[pairs[k][1]],
                                                     Labels[pairs[k][2]]>>,
                                     value |-> similarity]
                               ELSE lowest)

RECURSIVE ScanLowestGreater(_, _, _, _)
ScanLowestGreater(matrix, pairs, k, lowest) ==
  IF k > Len(pairs) THEN lowest
  ELSE LET similarity == matrix[pairs[k][1]][pairs[k][2]]
       IN ScanLowestGreater(matrix, pairs, k + 1,
                            IF NumGt(similarity, lowest.value)
                            THEN [platforms |-> <<Labels[pairs[k][1]],
                                                  Labels[pairs[k][2]]>>,
                                  value |-> similarity]
                            ELSE lowest)

RECURSIVE ScanLowest(_, _, _, _)
ScanLowest(matrix, pairs, k, lowest) ==
  IF k > Len(pairs) THEN lowest
  ELSE LET similarity == matrix[pairs[k][1]][pairs[k][2]]
       IN ScanLowest(matrix, pairs, k + 1,
                     IF NumLt(similarity, lowest.value)
                     THEN [platforms |-> <<Labels[pairs[k][1]],
                                           Labels[pairs[k][2]]>>,
                           value |-> similarity]
                     ELSE lowest)

SimilarityThreshold == Num(1, 2)

SimilarityRecommendation(similarityRes) ==
  LET n == Cardinality(DOMAIN similarityRes.matrix)
      lowestSimilarityPair ==
        ScanLowest(similarityRes.matrix, Pairs(n), 1,
                   [platforms |-> <<"", "">>, value |-> Int2Num(1)])
  IN IF NumLt(lowestSimilarityPair.value, SimilarityThreshold)
     THEN <<[category |-> "similarity",
             title |-> "Align messaging between platforms",
             platforms |-> lowestSimilarityPair.platforms]>>
     ELSE <<>>

RecommendationsToneFirst(sentimentRes, keywordRes, toneRes, similarityRes) ==
  ToneRecommendation(toneRes)
  \o SentimentRecommendation(sentimentRes)
  \o KeywordRecommendation(keywordRes)
  \o SimilarityRecommendation(similarityRes)

generateRecommendations(sentimentRes, keywordRes, toneRes, similarityRes) ==
  SentimentRecommendation(sentimentRes)
  \o KeywordRecommendation(keywordRes)
  \o ToneRecommendation(toneRes)
  \o SimilarityRecommendation(similarityRes)

(***************************************************************************)
(* The requests a client may send.                                         *)
(***************************************************************************)
MinSamples == 2

RECURSIVE Join(_)
Join(ws) == IF Len(ws) = 0 THEN <<>>
            ELSE IF Len(ws) = 1 THEN <<ws[1]>>
            ELSE <<ws[1], SP>> \o Join(Tail(ws))

\* The texts of exactly k words of V, single-spaced; Z are the texts
\* without a word.
TextsOf(V, Z, k) == IF k = 0 THEN Z ELSE {Join(ws) : ws \in [1..k -> V]}

\* The ContentSets of n platforms with at most b words in all.
RECURSIVE GenContent(_, _, _, _)
GenContent(V, Z, n, b) ==
  IF n = 0 THEN {<<>>}
  ELSE UNION {UNION {{Append(c, t) : t \in TextsOf(V, Z, k)} :
                        c \in GenContent(V, Z, n - 1, b - k)} : k \in 0..b}

Vocab == {"the", "brand", "Brand", "best"}

WordlessTexts == {<<>>, <<SP>>, <<PUNCT>>}

ToneVocab == {"hence", "cool", "notably", "best"}

GeneralInputs ==
  UNION {GenContent(Vocab, WordlessTexts, n, MaxTotalWords) : n \in 0..MaxPlatforms}

ToneInputs ==
  UNION {GenContent(ToneVocab, {<<>>}, n, MaxToneWords) : n \in 0..MaxTonePlatforms}

KeywordVocab == {"alpha", "beta", "the"}

\* As many distinct keywords as a platform's keyword list keeps.
FillerWords == <<"kwa", "kwb", "kwc", "kwd", "kwe", "kwf", "kwg", "kwh", "kwi",
                 "kwj">>

Fillers == SubSeq(FillerWords, 1, Min(KeywordLimit, Len(FillerWords)))

\* The ContentSet c with the filler keywords put before the text of the
\* platforms in S.
WithFillers(c, S) ==
  [p \in 1..Len(c) |-> IF p \in S THEN Join(Fillers \o tokenize(c[p]))
                                   ELSE c[p]]

KeywordInputs ==
  UNION {{WithFillers(c, S) : S \in SUBSET (1..Len(c))} :
           c \in UNION {GenContent(KeywordVocab, {<<>>}, n, MaxKeywordWords) :
                          n \in 0..MaxKeywordPlatforms}}

\* ContentSets of at most two platforms.
PairInputs ==
  UNION {GenContent(Vocab, WordlessTexts, n, MaxPairWords) : n \in 0..MinSamples}

\* One scored word followed by neutral words, or one neutral word: the
\* comparative scores 1, 1/2, ..., 1/MaxVarianceWords and 0.
VarianceTexts ==
  {Join(<<"cool">> \o [i \in 1..j |-> "the"]) : j \in 0..(MaxVarianceWords - 1)}
  \cup {<<"the">>}

RECURSIVE ContentsOf(_, _)
ContentsOf(T, n) ==
  IF n = 0 THEN {<<>>}
  ELSE UNION {{Append(c, t) : t \in T} : c \in ContentsOf(T, n - 1)}

VarianceInputs ==
  UNION {ContentsOf(VarianceTexts, n) : n \in 0..MaxVariancePlatforms}

Inputs(d) == CASE d = "general" -> GeneralInputs
               [] d = "tone" -> ToneInputs
               [] d = "keywords" -> KeywordInputs
               [] d = "pair" -> PairInputs
               [] d = "variance" -> VarianceInputs

\* req.body: with or without a platformContent member
Bodies(d) == {[present |-> FALSE, content |-> <<>>]}
             \cup {[present |-> TRUE, content |-> c] : c \in Inputs(d)}

(***************************************************************************)
(* The request handler and the pipeline steps.                             *)
(***************************************************************************)
ValidationMessage ==
  "At least two content samples are required for consistency analysis"

Cleared ==
  /\ sentimentResults' = <<>>
  /\ varianceDouble' = <<>>
  /\ keywordResults' = <<>>
  /\ toneResults' = <<>>
  /\ similarityMatrix' = <<>>
  /\ consistencyScore' = <<>>
  /\ recommendations' = <<>>
  /\ thrown' = <<>>

InitServer ==
  /\ pc = "idle"
  /\ request = <<>>
  /\ platformContent = <<>>
  /\ sentimentResults = <<>>
  /\ varianceDouble = <<>>
  /\ keywordResults = <<>>
  /\ toneResults = <<>>
  /\ similarityMatrix = <<>>
  /\ consistencyScore = <<>>
  /\ recommendations = <<>>
  /\ thrown = <<>>
  /\ response = <<>>

\* The page as index.html gives it, before any event.
PageLoaded ==
  /\ inputHidden = FALSE
  /\ resultsHidden = TRUE
  /\ loadingHidden = TRUE
  /\ usedPlatforms = <<"Website", "Twitter">>
  /\ fields = << <<>>, <<>> >>
  /\ outstanding = <<>>

InitRest == InitServer /\ PageLoaded

Init == dom = "general" /\ InitRest

InitTone == dom = "tone" /\ InitRest

InitKeywords == dom = "keywords" /\ InitRest

InitPair == dom = "pair" /\ InitRest

InitVariance == dom = "variance" /\ InitRest

\* app.post('/api/analyze'): the guard of the route, then the call
Post ==
  /\ pc = "idle"
  /\ \E body \in Bodies(dom) :
       /\ request' = <<body>>
       /\ IF ~body.present \/ Len(body.content) = 0
          THEN /\ response' = <<[status |-> 400,
                                 error |-> "No content provided for analysis"]>>
               /\ platformContent' = <<>>
               /\ pc' = "responded"
          ELSE /\ response' = <<>>
               /\ platformContent' = body.content
               /\ pc' = "validate"
  /\ Cleared
  /\ UNCHANGED dom
  /\ UNCHANGED browserVars

TooFewOffByOne(content) == Len(content) < MinSamples - 1

\* platforms.length < 2
TooFew(content) == Len(content) < MinSamples

Validate ==
  /\ pc = "validate"
  /\ IF TooFew(platformContent)
     THEN thrown' = <<ValidationMessage>> /\ pc' = "failed"
     ELSE thrown' = thrown /\ pc' = "sentiment"
  /\ UNCHANGED <<dom, request, platformContent, sentimentResults,
                 varianceDouble, keywordResults,
                 toneResults, similarityMatrix, consistencyScore,
                 recommendations, response>>
  /\ UNCHANGED browserVars

StepSentiment ==
  /\ pc = "sentiment"
  /\ sentimentResults' = <<performSentimentAnalysis(platformContent)>>
  /\ varianceDouble' = <<SentimentVarianceDouble(platformContent)>>
  /\ pc' = "keywords"
  /\ UNCHANGED <<dom, request, platformContent, keywordResults, toneResults,
                 similarityMatrix, consistencyScore, recommendations, thrown,
                 response>>
  /\ UNCHANGED browserVars

StepKeywords ==
  /\ pc = "keywords"
  /\ keywordResults' = <<extractKeywords(platformContent)>>
  /\ pc' = "tone"
  /\ UNCHANGED <<dom, request, platformContent, sentimentResults,
                 varianceDouble, toneResults,
                 similarityMatrix, consistencyScore, recommendations, thrown,
                 response>>
  /\ UNCHANGED browserVars

StepTone ==
  /\ pc = "tone"
  /\ toneResults' = <<analyzeTone(platformContent)>>
  /\ pc' = "similarity"
  /\ UNCHANGED <<dom, request, platformContent, sentimentResults,
                 varianceDouble, keywordResults,
                 similarityMatrix, consistencyScore, recommendations, thrown,
                 response>>
  /\ UNCHANGED browserVars

StepSimilarity ==
  /\ pc = "similarity"
  /\ similarityMatrix' = <<calculateSimilarityMatrix(platformContent)>>
  /\ pc' = "score"
  /\ UNCHANGED <<dom, request, platformContent, sentimentResults,
                 varianceDouble, keywordResults,
                 toneResults, consistencyScore, recommendations, thrown,
                 response>>
  /\ UNCHANGED browserVars

StepScore ==
  /\ pc = "score"
  /\ consistencyScore' =
       <<calculateConsistencyScore(sentimentResults[1], keywordResults[1],
                                   toneResults[1], similarityMatrix[1])>>
  /\ pc' = "recommend"
  /\ UNCHANGED <<dom, request, platformContent, sentimentResults,
                 varianceDouble, keywordResults,
                 toneResults, similarityMatrix, recommendations, thrown,
                 response>>
  /\ UNCHANGED browserVars

StepRecommend ==
  /\ pc = "recommend"
  /\ recommendations' =
       <<generateRecommendations(sentimentResults[1], keywordResults[1],
                                 toneResults[1], similarityMatrix[1])>>
  /\ pc' = "return"
  /\ UNCHANGED <<dom, request, platformContent, sentimentResults,
                 varianceDouble, keywordResults,
                 toneResults, similarityMatrix, consistencyScore, thrown,
                 response>>
  /\ UNCHANGED browserVars

\* analyzeConsistency returns the report and the route sends it: res.json
Respond ==
  /\ pc = "return"
  /\ response' = <<[status |-> 200,
                    overallConsistencyScore |-> consistencyScore[1],
                    sentimentAnalysis |-> sentimentResults[1],
                    keywordAnalysis |-> keywordResults[1],
                    toneAnalysis |-> toneResults[1],
                    similarityMatrix |-> similarityMatrix[1],
                    recommendations |-> recommendations[1]]>>
  /\ pc' = "responded"
  /\ UNCHANGED <<dom, request, platformContent, sentimentResults,
                 varianceDouble, keywordResults,
                 toneResults, similarityMatrix, consistencyScore,
                 recommendations, thrown>>
  /\ UNCHANGED browserVars

\* analyzeConsistency rethrows and the catch of the route answers
Catch ==
  /\ pc = "failed"
  /\ response' = <<[status |-> 500, error |-> "Failed to analyze content"]>>
  /\ pc' = "responded"
  /\ UNCHANGED <<dom, request, platformContent, sentimentResults,
                 varianceDouble, keywordResults,
                 toneResults, similarityMatrix, consistencyScore,
                 recommendations, thrown>>
  /\ UNCHANGED browserVars


\* The request is over: its locals are gone, the server waits for the next.
Complete ==
  /\ pc = "responded"
  /\ pc' = "idle"
  /\ request' = <<>>
  /\ platformContent' = <<>>
  /\ response' = <<>>
  /\ Cleared
  /\ UNCHANGED dom
  /\ UNCHANGED browserVars

Next ==
  \/ Post
  \/ Validate
  \/ StepSentiment
  \/ StepKeywords
  \/ StepTone
  \/ StepSimilarity
  \/ StepScore
  \/ StepRecommend
  \/ Respond
  \/ Catch
  \/ Complete

Spec == Init /\ [][Next]_vars

SpecTone == InitTone /\ [][Next]_vars

SpecKeywords == InitKeywords /\ [][Next]_vars

SpecPair == InitPair /\ [][Next]_vars

SpecVariance == InitVariance /\ [][Next]_vars

(***************************************************************************)
(* The page of the browser (src/unnamed/part_000 over                      *)
(* src/public/index.html).  A section is shown unless its class list holds *)
(* "hidden" (display: none, styles.css).  fields are the texts of the      *)
(* textareas of the form, in document order.  outstanding holds, for every *)
(* call of handleFormSubmit that has not returned, the await it stands at: *)
(* "fetch" or "json".  A control takes a click or a key only while the     *)
(* section that holds it is shown; one action is one task of the event     *)
(* loop.                                                                   *)
(***************************************************************************)
platformOptions ==
  <<"Website", "Twitter", "Instagram", "Facebook", "LinkedIn", "YouTube",
    "TikTok", "Blog", "Email", "Press Release", "Other">>

FieldTexts == {<<>>, <<SP>>, <<"brand">>}

InitBrowser == dom = "browser" /\ InitServer /\ PageLoaded

\* The user edits one textarea of the form.
EditField ==
  /\ ~inputHidden
  /\ \E i \in 1..Len(fields) : \E t \in FieldTexts \ {fields[i]} :
       fields' = [fields EXCEPT ![i] = t]
  /\ UNCHANGED <<inputHidden, resultsHidden, loadingHidden, usedPlatforms,
                 outstanding>>
  /\ UNCHANGED serverVars

availablePlatforms ==
  SelectSeq(platformOptions, LAMBDA p : ~Includes(usedPlatforms, p))

\* A click on the add-platform button.
addPlatformInput ==
  /\ ~inputHidden
  /\ Len(fields) < MaxFields
  /\ IF Len(availablePlatforms) = 0
     THEN UNCHANGED <<usedPlatforms, fields>>
     ELSE /\ usedPlatforms' = Append(usedPlatforms, availablePlatforms[1])
          /\ fields' = Append(fields, <<>>)
  /\ UNCHANGED <<inputHidden, resultsHidden, loadingHidden, outstanding>>
  /\ UNCHANGED serverVars

validPlatformCount == Cardinality({i \in 1..Len(fields) : IsNonBlank(fields[i])})

\* The submit event of the form: handleFormSubmit up to its await of fetch.
handleFormSubmit ==
  /\ ~inputHidden
  /\ IF validPlatformCount < MinSamples
     THEN UNCHANGED <<inputHidden, loadingHidden, outstanding>>
     ELSE /\ inputHidden' = TRUE
          /\ loadingHidden' = FALSE
          /\ outstanding' = Append(outstanding, "fetch")
  /\ UNCHANGED <<resultsHidden, usedPlatforms, fields>>
  /\ UNCHANGED serverVars

Without(s, i) == SubSeq(s, 1, i - 1) \o SubSeq(s, i + 1, Len(s))

catchBlockKeepsLoading(i) ==
  /\ inputHidden' = FALSE
  /\ outstanding' = Without(outstanding, i)
  /\ UNCHANGED <<loadingHidden, resultsHidden>>

\* The catch block of call i, which then returns.
catchBlock(i) ==
  /\ loadingHidden' = TRUE
  /\ inputHidden' = FALSE
  /\ outstanding' = Without(outstanding, i)
  /\ UNCHANGED resultsHidden

FetchOutcomes == {"ok", "not ok", "rejected"}

\* The promise of fetch settles: a response that is ok, a response that is
\* not (the throw of line 116), or a rejection.
FetchSettles ==
  /\ \E i \in 1..Len(outstanding) : \E outcome \in FetchOutcomes :
       /\ outstanding[i] = "fetch"
       /\ IF outcome = "ok"
          THEN /\ outstanding' = [outstanding EXCEPT ![i] = "json"]
               /\ UNCHANGED <<inputHidden, resultsHidden, loadingHidden>>
          ELSE catchBlock(i)
  /\ UNCHANGED <<usedPlatforms, fields>>
  /\ UNCHANGED serverVars

JsonOutcomes == {"displayed", "displayResults throws", "rejected"}

\* The promise of response.json() settles: displayResults returns and the
\* results are shown, or displayResults throws, or the body is no JSON.
JsonSettles ==
  /\ \E i \in 1..Len(outstanding) : \E outcome \in JsonOutcomes :
       /\ outstanding[i] = "json"
       /\ IF outcome = "displayed"
          THEN /\ loadingHidden' = TRUE
               /\ resultsHidden' = FALSE
               /\ outstanding' = Without(outstanding, i)
               /\ UNCHANGED inputHidden
          ELSE catchBlock(i)
  /\ UNCHANGED <<usedPlatforms, fields>>
  /\ UNCHANGED serverVars

\* A click on the back button of the results section.
showInputSection ==
  /\ ~resultsHidden
  /\ resultsHidden' = TRUE
  /\ inputHidden' = FALSE
  /\ UNCHANGED <<loadingHidden, usedPlatforms, fields, outstanding>>
  /\ UNCHANGED serverVars

NextBrowser ==
  \/ EditField
  \/ addPlatformInput
  \/ handleFormSubmit
  \/ FetchSettles
  \/ JsonSettles
  \/ showInputSection

\* Every promise settles: the request is answered or the connection fails.
SpecBrowser ==
  /\ InitBrowser
  /\ [][NextBrowser]_vars
  /\ WF_vars(FetchSettles)
  /\ WF_vars(JsonSettles)

(***************************************************************************)
(* Properties.                                                             *)
(***************************************************************************)
Zero == Int2Num(0)

One == Int2Num(1)

InUnit(x) == NumLe(Zero, x) /\ NumLe(x, One)

NonBlankCount(content) ==
  Cardinality({p \in Platforms(content) : IsNonBlank(content[p])})

\* The non-blank content entries of a request body.
NonBlankEntries(body) ==
  IF body.present THEN NonBlankCount(body.content) ELSE 0

TokenSet(text) == SeqSet(tokenize(toLowerCase(text)))

ToneIndex(tone) == CHOOSE i \in 1..Len(ToneOrder) : ToneOrder[i] = tone

\* C1: the overall score of every accepted ContentSet is an integer in
\* 0..100, a defined number even without tokens or keywords.
C1_OverallScoreInRange ==
  consistencyScore # <<>> =>
    /\ IsInteger(consistencyScore[1])
    /\ consistencyScore[1].n >= 0
    /\ consistencyScore[1].n <= 100

\* C2: a call of analyzeConsistency with fewer than 2 non-blank entries fails
\* with the validation error and never gets past the validation.
C2_BlankEntriesRejected ==
  (platformContent # <<>> /\ pc # "validate"
   /\ NonBlankCount(platformContent) < 2)
    => thrown = <<ValidationMessage>>

\* C3: every request with fewer than 2 non-blank content entries is answered
\* with a 4xx status, not with the 500 of an internal failure nor a report.
C3_Http4xxForTooFewEntries ==
  (pc = "responded" /\ NonBlankEntries(request[1]) < 2)
    => response[1].status \in 400..499

\* C4: with exactly 1 platform the call fails with the validation error
\* before any sub-analysis, the aggregator or the recommendation generator
\* has run.
C4_OnePlatformFailsBeforeAnalysis ==
  Len(platformContent) = 1 =>
    /\ pc \in {"validate", "failed", "responded"}
    /\ pc # "validate" => thrown = <<ValidationMessage>>
    /\ sentimentResults = <<>>
    /\ keywordResults = <<>>
    /\ toneResults = <<>>
    /\ similarityMatrix = <<>>
    /\ consistencyScore = <<>>
    /\ recommendations = <<>>
    /\ pc = "responded" => response[1].status # 200

C4_Witness ==
  /\ Len(platformContent) = 1
  /\ pc = "failed"
  /\ thrown = <<ValidationMessage>>

\* C5: every entry of the similarity matrix is defined, the matrix is
\* symmetric and its diagonal is exactly 1.
C5_MatrixSymmetricUnitDiagonal ==
  similarityMatrix # <<>> =>
    LET matrix == similarityMatrix[1].matrix IN
    \A a, b \in DOMAIN matrix :
      /\ ~IsNaN(matrix[a][b])
      /\ NumEq(matrix[a][b], matrix[b][a])
      /\ NumEq(matrix[a][a], One)

\* C6: two platforms without tokens have similarity 1, a platform without
\* tokens and one with tokens have similarity 0, and the average similarity
\* is a number in [0, 1].
C6_EmptyTokenSetsDefined ==
  similarityMatrix # <<>> =>
    LET matrix == similarityMatrix[1].matrix IN
    /\ \A a, b \in DOMAIN matrix :
         LET ea == TokenSet(platformContent[a]) = {}
             eb == TokenSet(platformContent[b]) = {}
         IN a # b =>
              /\ (ea /\ eb) => NumEq(matrix[a][b], One)
              /\ (ea # eb) => NumEq(matrix[a][b], Zero)
    /\ InUnit(similarityMatrix[1].averageSimilarity)

\* C7: the keyword consistency score is |consistentKeywords| over
\* min(10, distinct keywords), and exactly 0 when there is no keyword.
C7_KeywordScoreDefined ==
  keywordResults # <<>> =>
    LET r == keywordResults[1]
        distinct == UNION {SeqSet(KeywordsOf(platformContent[p])) :
                             p \in Platforms(platformContent)}
    IN IF distinct = {}
       THEN NumEq(r.consistencyScore, Zero)
       ELSE r.consistencyScore.n * Min(10, Cardinality(distinct))
              = Len(r.consistentKeywords) * r.consistencyScore.d
            /\ ~IsNaN(r.consistencyScore)

IsMaxTone(t) ==
  \A u \in DOMAIN t.scores : ~NumGt(t.scores[u], t.scores[t.dominantTone])

TiedTones(t) ==
  {u \in DOMAIN t.scores : NumEq(t.scores[u], t.scores[t.dominantTone])}

C9_ToneConsistency ==
  toneResults # <<>> =>
    LET r == toneResults[1]
        tones == r.platformTones
        d == Cardinality({tones[p].dominantTone : p \in DOMAIN tones})
        allSame == \A p, q \in DOMAIN tones :
                     tones[p].dominantTone = tones[q].dominantTone
    IN /\ r.consistent <=> allSame
       /\ r.consistent <=> NumEq(r.consistencyScore, One)
       /\ 3 * r.consistencyScore.n = (4 - d) * r.consistencyScore.d
       /\ InUnit(r.consistencyScore)

C9_Witness ==
  /\ toneResults # <<>>
  /\ Cardinality({toneResults[1].platformTones[p].dominantTone :
                    p \in DOMAIN toneResults[1].platformTones}) = 4
  /\ ~toneResults[1].consistent
  /\ NumEq(toneResults[1].consistencyScore, Zero)

\* C10: for 2 platforms with identical content the report has similarity 1,
\* sentiment variance 0, a consistent tone, keyword score 1, overall score
\* 100 and no recommendation.
C10_IdenticalContentIsPerfect ==
  (pc = "return" /\ Len(platformContent) = 2
   /\ platformContent[1] = platformContent[2])
    => /\ NumEq(similarityMatrix[1].matrix[1][2], One)
       /\ NumEq(sentimentResults[1].variance, Zero)
       /\ toneResults[1].consistent
       /\ NumEq(keywordResults[1].consistencyScore, One)
       /\ NumEq(consistencyScore[1], Int2Num(100))
       /\ recommendations[1] = <<>>

\* The recommendations of one category in the generated sequence.
RecsOf(category) ==
  SelectSeq(recommendations[1], LAMBDA r : r.category = category)

\* The platforms whose kept keyword list holds the keyword.
PlatformsWith(keyword) ==
  {p \in Platforms(platformContent) :
     Includes(keywordResults[1].platformKeywords[p], keyword)}

\* C11: every keyword listed in the keywords recommendation is in the keyword
\* list of at least 1 and of fewer than all platforms, and is shown with the
\* non-empty list of the platforms it is missing from.
C11_ListedKeywordsPartiallyPresent ==
  recommendations # <<>> =>
    \A i \in 1..Len(RecsOf("keywords")) :
      LET rec == RecsOf("keywords")[i] IN
      \A k \in 1..Len(rec.suggestions) :
        LET sg == rec.suggestions[k]
            on == PlatformsWith(sg.keyword)
        IN /\ on # {}
           /\ on # Platforms(platformContent)
           /\ sg.missing # <<>>
           /\ SeqSet(sg.missing) = Platforms(platformContent) \ on

C11_Witness ==
  /\ recommendations # <<>>
  /\ Len(RecsOf("keywords")) = 1
  /\ \E e \in SeqSet(keywordResults[1].keywordPresence) : e.count = 0

CategoryOrder == <<"sentiment", "keywords", "tone", "similarity">>

CategoryIndex(category) ==
  CHOOSE i \in 1..Len(CategoryOrder) : CategoryOrder[i] = category

Fires(category) == Len(RecsOf(category)) > 0

\* Some keyword of the presence map is on at least 1 but not on all platforms.
SomePartialKeyword ==
  \E e \in SeqSet(keywordResults[1].keywordPresence) :
    e.count > 0 /\ e.count < Len(platformContent)

\* Some pair of distinct platforms has a similarity below 0.5.
SomePairBelowHalf ==
  \E a, b \in Platforms(platformContent) :
    a < b /\ NumLt(similarityMatrix[1].matrix[a][b], Num(1, 2))

\* C13: the recommendations hold at most one entry per category, in the
\* order sentiment, keywords, tone, similarity, and each rule fires exactly
\* on its own condition, whatever the other rules do.
C13_OnePerCategoryInFixedOrder ==
  recommendations # <<>> =>
    LET recs == recommendations[1] IN
    /\ \A i, j \in 1..Len(recs) :
         i < j => CategoryIndex(recs[i].category) < CategoryIndex(recs[j].category)
    /\ \A i \in 1..Len(recs) : recs[i].category \in SeqSet(CategoryOrder)
    /\ Fires("sentiment") <=> ~sentimentResults[1].consistent
    /\ Fires("keywords") <=> SomePartialKeyword
    /\ Fires("tone") <=> ~toneResults[1].consistent
    /\ Fires("similarity") <=> SomePairBelowHalf

C13_Witness ==
  /\ recommendations # <<>>
  /\ Len(recommendations[1]) = 4
  /\ \A i \in 1..4 : recommendations[1][i].category = CategoryOrder[i]

OnlyStopWords(text) == TokenSet(text) \subseteq stopwords

SimilarityRecFires ==
  \E i \in 1..Len(RecsOf("similarity")) :
    RecsOf("similarity")[i].title = "Align messaging between platforms"

\* C14 as stated: of 2 platforms, one holds only stop words and the other
\* holds a word that does not occur in the first; then their similarity is
\* below 0.3 and the similarity recommendation is given.
C14_StopWordsAgainstOtherVocabulary ==
  (recommendations # <<>> /\ Len(platformContent) = 2) =>
    \A p, q \in {1, 2} :
      (p # q /\ OnlyStopWords(platformContent[p])
       /\ TokenSet(platformContent[q]) \ TokenSet(platformContent[p]) # {})
        => /\ NumLt(similarityMatrix[1].matrix[1][2], Num(3, 10))
           /\ SimilarityRecFires

\* C14 amended: of 2 platforms, one holds only stop words and the other
\* holds at least one word and none that occurs in the first; then their
\* similarity is 0 and the similarity recommendation is given.
C14_StopWordsAgainstDisjointVocabulary ==
  (recommendations # <<>> /\ Len(platformContent) = 2) =>
    \A p, q \in {1, 2} :
      (p # q /\ OnlyStopWords(platformContent[p])
       /\ TokenSet(platformContent[q]) # {}
       /\ TokenSet(platformContent[q]) \cap TokenSet(platformContent[p]) = {})
        => /\ NumEq(similarityMatrix[1].matrix[1][2], Zero)
           /\ SimilarityRecFires

C14_Witness ==
  /\ recommendations # <<>>
  /\ Len(platformContent) = 2
  /\ TokenSet(platformContent[1]) = {"the"}
  /\ TokenSet(platformContent[2]) = {"brand", "best"}
  /\ SimilarityRecFires

\* C15: every term of keywordPresence is in the kept keyword list of at
\* least one platform, so its count is at least 1; its count is the number of
\* distinct platforms in its list, and the list holds exactly the platforms
\* whose keyword list contains the term.
C15_PresenceMapMatchesKeywordLists ==
  keywordResults # <<>> =>
    \A e \in SeqSet(keywordResults[1].keywordPresence) :
      /\ PlatformsWith(e.keyword) # {}
      /\ e.count >= 1
      /\ e.count = Cardinality(SeqSet(e.platforms))
      /\ Len(e.platforms) = Cardinality(SeqSet(e.platforms))
      /\ SeqSet(e.platforms) = PlatformsWith(e.keyword)

\* The terms that pass the keyword filter in the text of every platform.
KeywordsOfEveryText ==
  {kw \in UNION {SeqSet(KeywordsOf(platformContent[p])) :
                   p \in Platforms(platformContent)} :
     \A p \in Platforms(platformContent) :
       kw \in SeqSet(KeywordsOf(platformContent[p]))}

\* C16: consistentKeywords holds exactly the terms that pass the keyword
\* filter in the text of every platform, however many distinct keywords
\* precede them in a text.
C16_ConsistentKeywordsOfEveryText ==
  keywordResults # <<>> =>
    SeqSet(keywordResults[1].consistentKeywords) = KeywordsOfEveryText

\* C17: each of the four sub-scores that calculateConsistencyScore weighs
\* (max(0, 1 - variance), keyword score, tone score, average similarity) lies
\* in [0, 1].
C17_SubScoresInUnitInterval ==
  consistencyScore # <<>> =>
    /\ InUnit(MathMax0(NumSub(One, sentimentResults[1].variance)))
    /\ InUnit(keywordResults[1].consistencyScore)
    /\ InUnit(toneResults[1].consistencyScore)
    /\ InUnit(similarityMatrix[1].averageSimilarity)

\* The partially present entries of the presence map, in map order.
PartialEntries ==
  SelectSeq(keywordResults[1].keywordPresence,
            LAMBDA e : e.count > 0 /\ e.count < Len(platformContent))

\* The keywords the keywords recommendation lists, in listed order.
ListedKeywords ==
  IF Fires("keywords")
  THEN [k \in 1..Len(RecsOf("keywords")[1].suggestions) |->
          RecsOf("keywords")[1].suggestions[k].keyword]
  ELSE <<>>

MapIndex(keyword) ==
  CHOOSE i \in 1..Len(keywordResults[1].keywordPresence) :
    keywordResults[1].keywordPresence[i].keyword = keyword

CountOf(keyword) == keywordResults[1].keywordPresence[MapIndex(keyword)].count

\* keyword a ranks before keyword b: a higher count, or the same count and
\* an earlier place in the presence map.
RanksBefore(a, b) ==
  \/ CountOf(a) > CountOf(b)
  \/ CountOf(a) = CountOf(b) /\ MapIndex(a) < MapIndex(b)

\* C18: the keywords recommendation lists the min(3, number) first partially
\* present keywords by descending count, ties in the order of the presence
\* map, and leaves out no partially present keyword that ranks before a
\* listed one.
C18_TopThreeByCount ==
  recommendations # <<>> =>
    LET partial == {PartialEntries[i].keyword : i \in 1..Len(PartialEntries)}
        listed == ListedKeywords
    IN /\ Fires("keywords") <=> partial # {}
       /\ Len(listed) = Min(3, Cardinality(partial))
       /\ SeqSet(listed) \subseteq partial
       /\ \A i, j \in 1..Len(listed) :
            i < j => RanksBefore(listed[i], listed[j])
       /\ \A kw \in partial \ SeqSet(listed) :
            \A i \in 1..Len(listed) : RanksBefore(listed[i], kw)

C18_Witness ==
  /\ recommendations # <<>>
  /\ Len(ListedKeywords) = 3
  /\ \E i \in 1..Len(PartialEntries) :
       /\ PartialEntries[i].keyword \notin SeqSet(ListedKeywords)
       /\ MapIndex(PartialEntries[i].keyword) < MapIndex(ListedKeywords[1])
       /\ PartialEntries[i].count < CountOf(ListedKeywords[1])

\* C19: the similarity recommendation is given exactly when some pair of
\* distinct platforms has a similarity below 0.5, and it names two distinct
\* platforms of the input whose similarity no other pair undercuts.
C19_SimilarityRecNamesLowestPair ==
  recommendations # <<>> =>
    /\ Fires("similarity") <=> SomePairBelowHalf
    /\ Fires("similarity") =>
         \E a, b \in Platforms(platformContent) :
           /\ a < b
           /\ RecsOf("similarity")[1].platforms = <<Labels[a], Labels[b]>>
           /\ Labels[a] # Labels[b]
           /\ NumLt(similarityMatrix[1].matrix[a][b], Num(1, 2))
           /\ \A c, d \in Platforms(platformContent) :
                c # d => ~NumLt(similarityMatrix[1].matrix[c][d],
                                similarityMatrix[1].matrix[a][b])

C19_Witness ==
  /\ recommendations # <<>>
  /\ Fires("similarity")
  /\ Len(platformContent) >= 3
  /\ RecsOf("similarity")[1].platforms = <<Labels[1], Labels[3]>>
  /\ NumLt(similarityMatrix[1].matrix[1][3], similarityMatrix[1].matrix[1][2])

\* C20: the sentiment recommendation is given exactly when the variance is
\* not below 0.2, and it names a platform of maximum and a platform of
\* minimum comparative score, two distinct platforms of the input.
C20_SentimentRecNamesExtremes ==
  recommendations # <<>> =>
    LET sentiments == sentimentResults[1].platformSentiments IN
    /\ Fires("sentiment")
         <=> ~NumLt(sentimentResults[1].variance, Num(1, 5))
    /\ Fires("sentiment") =>
         \E a, b \in Platforms(platformContent) :
           /\ a # b
           /\ RecsOf("sentiment")[1].maxPlatform = Labels[a]
           /\ RecsOf("sentiment")[1].minPlatform = Labels[b]
           /\ \A p \in Platforms(platformContent) :
                /\ ~NumGt(sentiments[p].comparative, sentiments[a].comparative)
                /\ ~NumLt(sentiments[p].comparative, sentiments[b].comparative)

C20_Witness ==
  /\ recommendations # <<>>
  /\ Fires("sentiment")
  /\ RecsOf("sentiment")[1].maxPlatform = Labels[2]
  /\ RecsOf("sentiment")[1].minPlatform = Labels[3]

(***************************************************************************)
(* The sentiment variance as a double.                                     *)
(***************************************************************************)
\* The double v is within 2^-bits of the fraction x >= 0.
DoubleNear(v, x, bits) ==
  LET k == Max(0, -v.e)
      a == BigShl(BigMul(v.m, BigOfInt(x.d)), v.e + k)
      b == BigShl(BigOfInt(x.n), k)
      diff == IF BigLess(a, b) THEN BigSub(b, a) ELSE BigSub(a, b)
  IN /\ ~v.neg
     /\ ~BigLess(BigShl(BigOfInt(x.d), k), BigShl(diff, bits))

\* The mean of the squares less the square of the mean, in exact fractions.
PopulationVariance(values) ==
  LET n == Len(values)
      mean == NumDivInt(NumSum(values), n)
      squares == [i \in 1..n |-> NumMul(values[i], values[i])]
  IN NumSub(NumDivInt(NumSum(squares), n), NumMul(mean, mean))

Comparatives ==
  [p \in Platforms(platformContent) |->
     sentimentResults[1].platformSentiments[p].comparative]

EqualComparatives ==
  \A p, q \in Platforms(platformContent) : NumEq(Comparatives[p], Comparatives[q])

\* C21: the variance member of the sentiment result is the population
\* variance of the platforms' comparative scores (the sum of the squared
\* deviations from the mean over the number of platforms, to within 2^-40),
\* it is never negative, and it is exactly 0 when all platforms have the same
\* comparative score.
C21_PopulationVarianceZeroWhenEqual ==
  varianceDouble # <<>> =>
    /\ DoubleNear(varianceDouble[1], PopulationVariance(Comparatives), 40)
    /\ ~varianceDouble[1].neg
    /\ EqualComparatives => varianceDouble[1] = DoubleZero

(***************************************************************************)
(* The sections of the page.                                               *)
(***************************************************************************)
ShownSections ==
  {name \in {"input", "loading", "results"} :
     \/ name = "input" /\ ~inputHidden
     \/ name = "loading" /\ ~loadingHidden
     \/ name = "results" /\ ~resultsHidden}

RequestOutstanding == outstanding # <<>>

\* C22: between any two events of the page (submissions of the form,
\* settled fetches, results displayed or failing to display, clicks on the
\* back button) exactly one of the input, loading and results sections is
\* shown; the loading section is shown only while a request is outstanding;
\* and every outstanding request ends, with the results section or the
\* input section shown.
C22_OneSectionShown ==
  /\ [](Cardinality(ShownSections) = 1)
  /\ [](("loading" \in ShownSections) => RequestOutstanding)
  /\ RequestOutstanding
       ~> (~RequestOutstanding /\ ShownSections \in {{"results"}, {"input"}})

\* The results are shown after a request, for a form of three platforms.
C22_Witness ==
  /\ ShownSections = {"results"}
  /\ ~RequestOutstanding
  /\ Len(usedPlatforms) = 3
  /\ validPlatformCount = MinSamples

====
